---- MODULE Spec2Model ----
(***************************************************************************)
(* The rotation trader: the Portfolio ledger (src/src/models/portfolio.py  *)
(* with Position and Trade), the RotationEngine, the PositionSizer, the    *)
(* Scorer's batch scoring and the cycle of the PortfolioRotationAgent.     *)
(* Money amounts and scores are Python floats; they are modelled as binary *)
(* floating-point numbers with Precision significant bits (round to        *)
(* nearest, ties to even) whose unit in the last place of small values is  *)
(* one quantum.  Share counts are integers.                                *)
(***************************************************************************)
EXTENDS Integers, Sequences, FiniteSets, TLC

\* ---------------------------------------------------------------- bounds
Precision == 4          \* significant bits of a float of the model
MaxTrades == 3          \* longest trade history explored

\* ---------------------------------------------------------------- inputs
Tickers == {"A", "B"}
Prices == {9, 13}                 \* prices > 0, each an exact float
ShareCounts == {1, 2}             \* share counts >= 1
Scores == {1}                     \* score level of a buy
Capitals == {0, 18, 22}               \* initial capital >= 0

\* ------------------------------------------------------ float arithmetic
RECURSIVE Pow2(_)
Pow2(n) == IF n = 0 THEN 1 ELSE 2 * Pow2(n - 1)

\* num/den rounded to the nearest integer, ties to the even one
RoundHalfEven(num, den) ==
    LET q == num \div den
        r == num % den
    IN  IF 2 * r < den THEN q
        ELSE IF 2 * r > den THEN q + 1
        ELSE IF q % 2 = 0 THEN q ELSE q + 1

TwoToP == Pow2(Precision)

\* spacing of the floats around n >= 0
RECURSIVE Ulp(_, _)
Ulp(n, step) == IF n < TwoToP * step THEN step ELSE Ulp(n, 2 * step)

\* the float nearest to the exact value n
Fl(n) ==
    LET a == IF n < 0 THEN 0 - n ELSE n
        step == Ulp(a, 1)
        r == RoundHalfEven(a, step) * step
    IN  IF n < 0 THEN 0 - r ELSE r

FMul(x, y) == Fl(x * y)
FAdd(x, y) == Fl(x + y)
FSub(x, y) == Fl(x - y)

\* int(p / b) for floats p >= 0, b > 0: the quotient is rounded to a float
\* first and truncated afterwards
RECURSIVE ScaleUp(_, _, _)
ScaleUp(p, b, a) == IF p * a < b * Pow2(Precision - 1) THEN ScaleUp(p, b, 2 * a) ELSE a
RECURSIVE ScaleDown(_, _, _)
ScaleDown(p, b, c) == IF p >= b * Pow2(Precision) * c THEN ScaleDown(p, b, 2 * c) ELSE c

IntFDiv(p, b) ==
    IF p = 0 THEN 0
    ELSE LET a == ScaleUp(p, b, 1)
             c == ScaleDown(p, b, 1)
             m == RoundHalfEven(p * a, b * c)
         IN  (m * c) \div a

\* ------------------------------------------------------------- positions
\* Portfolio.positions is a dict: a sequence of Position records in
\* insertion order, at most one per ticker.
Held(ps) == {ps[i].ticker : i \in 1..Len(ps)}

IndexOf(ps, t) == CHOOSE i \in 1..Len(ps) : ps[i].ticker = t

GetPosition(ps, t) == ps[IndexOf(ps, t)]

\* mutant: closing one holding clears the whole mapping
DelAllPositions(ps, t) == <<>>

DelPosition(ps, t) == SelectSeq(ps, LAMBDA q : q.ticker # t)

CurrentValue(pos) == FMul(pos.shares, pos.current_price)

RECURSIVE SumValues(_, _)
SumValues(ps, acc) ==
    IF ps = <<>> THEN acc
    ELSE SumValues(Tail(ps), FAdd(acc, CurrentValue(Head(ps))))

HoldingsValue(ps) == SumValues(ps, 0)

\* p is a ledger: [cash, positions, trades, peak_value]
PortfolioValue(p) == FAdd(p.cash, HoldingsValue(p.positions))

\* mutant: the peak follows the value down as well as up
UpdatePeakAlways(p) == [p EXCEPT !.peak_value = PortfolioValue(p)]

UpdatePeak(p) ==
    LET v == PortfolioValue(p)
    IN  IF v > p.peak_value THEN [p EXCEPT !.peak_value = v] ELSE p

\* Position.current_score = None
NoScore == -1

\* score or 0.0
OrZero(score) == IF score = NoScore THEN 0 ELSE score

Trade(t, type, shares, price, score) ==
    [ticker |-> t, trade_type |-> type, shares |-> shares, price |-> price,
     score |-> score]

\* Trade.trade_value
TradeValue(trade) == FMul(trade.shares, trade.price)

NewPosition(t, shares, price, score) ==
    [ticker |-> t, shares |-> shares, entry_price |-> price,
     entry_score |-> score, current_price |-> price, current_score |-> score]

\* ------------------------------------------------------------ operations
\* Each operation maps a ledger p to [ok, proceeds, p]: its return value
\* and the ledger it leaves.
Result(ok, proceeds, p) == [ok |-> ok, proceeds |-> proceeds, p |-> p]

\* mutant: the cost of one share whatever the share count
CostOfOneShare(shares, price) == price

Cost(shares, price) == FMul(shares, price)

\* mutant: the cash check is dropped
InsufficientCashNever(p, cost) == FALSE

InsufficientCash(p, cost) == cost > p.cash

\* mutant: the newest trade is put in front of the history
RecordTradeFront(ts, trade) == <<trade>> \o ts

RecordTrade(ts, trade) == Append(ts, trade)

\* mutant: a buy of a held ticker sets the share count instead of adding
BoughtReplacingShares(p, t, shares, price, score) ==
    LET ps == p.positions
        ps2 == IF t \in Held(ps)
               THEN [ps EXCEPT ![IndexOf(ps, t)] =
                        [@ EXCEPT !.shares = shares,
                                  !.current_price = price,
                                  !.current_score = score]]
               ELSE Append(ps, NewPosition(t, shares, price, score))
        p2 == [p EXCEPT !.positions = ps2,
                        !.cash = FSub(p.cash, Cost(shares, price)),
                        !.trades = RecordTrade(@, Trade(t, "BUY", shares, price, score))]
    IN  Result(TRUE, 0, UpdatePeak(p2))

\* mutant: a buy of a held ticker opens the position afresh
BoughtAfresh(p, t, shares, price, score) ==
    LET ps == p.positions
        ps2 == IF t \in Held(ps)
               THEN [ps EXCEPT ![IndexOf(ps, t)] =
                        NewPosition(t, @.shares + shares, price, score)]
               ELSE Append(ps, NewPosition(t, shares, price, score))
        p2 == [p EXCEPT !.positions = ps2,
                        !.cash = FSub(p.cash, Cost(shares, price)),
                        !.trades = RecordTrade(@, Trade(t, "BUY", shares, price, score))]
    IN  Result(TRUE, 0, UpdatePeak(p2))

\* the part of add_position after the cash check
Bought(p, t, shares, price, score) ==
    LET cost == Cost(shares, price)
        ps == p.positions
        ps2 == IF t \in Held(ps)
               THEN [ps EXCEPT ![IndexOf(ps, t)] =
                        [@ EXCEPT !.shares = @ + shares,
                                  !.current_price = price,
                                  !.current_score = score]]
               ELSE Append(ps, NewPosition(t, shares, price, score))
        p2 == [p EXCEPT !.positions = ps2,
                        !.cash = FSub(p.cash, cost),
                        !.trades = RecordTrade(@, Trade(t, "BUY", shares, price, score))]
    IN  Result(TRUE, 0, UpdatePeak(p2))

\* mutant: the cost is taken from cash before the cash check
AddPositionChargeFirst(p, t, shares, price, score) ==
    IF InsufficientCash(p, Cost(shares, price))
    THEN Result(FALSE, 0, [p EXCEPT !.cash = FSub(@, Cost(shares, price))])
    ELSE Bought(p, t, shares, price, score)

AddPosition(p, t, shares, price, score) ==
    IF InsufficientCash(p, Cost(shares, price))
    THEN Result(FALSE, 0, p)
    ELSE Bought(p, t, shares, price, score)

\* mutant: the holding is closed and paid out, the SELL is not recorded
RemovePositionUnrecorded(p, t, price) ==
    IF t \notin Held(p.positions) THEN Result(FALSE, 0, p)
    ELSE LET pos == GetPosition(p.positions, t)
             proceeds == FMul(pos.shares, price)
             p2 == [p EXCEPT !.cash = FAdd(p.cash, proceeds),
                             !.positions = DelPosition(@, t)]
         IN  Result(TRUE, proceeds, UpdatePeak(p2))

RemovePosition(p, t, price) ==
    IF t \notin Held(p.positions) THEN Result(FALSE, 0, p)
    ELSE LET pos == GetPosition(p.positions, t)
             proceeds == FMul(pos.shares, price)
             p2 == [p EXCEPT !.trades = RecordTrade(@, Trade(t, "SELL", pos.shares,
                                                            price, OrZero(pos.current_score))),
                             !.cash = FAdd(p.cash, proceeds),
                             !.positions = DelPosition(@, t)]
         IN  Result(TRUE, proceeds, UpdatePeak(p2))

SharesToBuy(proceeds, buy_price) == IntFDiv(proceeds, buy_price)

RotatePosition(p, sell, buy, sell_price, buy_price, new_score) ==
    IF sell \notin Held(p.positions) THEN Result(FALSE, 0, p)
    ELSE LET pos == GetPosition(p.positions, sell)
             proceeds == FMul(pos.shares, sell_price)
             shares_to_buy == SharesToBuy(proceeds, buy_price)
         IN  IF shares_to_buy = 0 THEN Result(FALSE, 0, p)
             ELSE LET closed == RemovePosition(p, sell, sell_price)
                  IN  IF ~closed.ok THEN Result(FALSE, 0, closed.p)
                      ELSE LET opened == AddPosition(closed.p, buy, shares_to_buy,
                                                     buy_price, new_score)
                           IN  Result(opened.ok, 0, opened.p)

\* mutant: the new price becomes the entry price as well
UpdatePriceAndEntry(pos, price) ==
    [pos EXCEPT !.current_price = price, !.entry_price = price]

\* Position.update_price with score = None
UpdatePrice(pos, price) == [pos EXCEPT !.current_price = price]

UpdatePrices(p, price_dict) ==
    LET ps == p.positions
        ps2 == [i \in 1..Len(ps) |->
                   IF ps[i].ticker \in DOMAIN price_dict
                   THEN UpdatePrice(ps[i], price_dict[ps[i].ticker])
                   ELSE ps[i]]
    IN  UpdatePeak([p EXCEPT !.positions = ps2])

\* ------------------------------------------------------- profit and loss
EntryValue(pos) == FMul(pos.shares, pos.entry_price)

\* Position.unrealized_pnl
PositionUnrealizedPnl(pos) == FSub(CurrentValue(pos), EntryValue(pos))

RECURSIVE SumUnrealized(_, _)
SumUnrealized(ps, acc) ==
    IF ps = <<>> THEN acc
    ELSE SumUnrealized(Tail(ps), FAdd(acc, PositionUnrealizedPnl(Head(ps))))

\* Portfolio.unrealized_pnl
UnrealizedPnl(p) == SumUnrealized(p.positions, 0)

\* Portfolio.realized_pnl
RealizedPnl(p, capital) == FSub(FSub(PortfolioValue(p), capital), UnrealizedPnl(p))

\* ---------------------------------------------------------------- scores
\* Scores and position fractions are floats of the same format whose value
\* 1.0 is ScoreOne quanta.
ScoreOne == 1024

\* the float nearest to the rational num/den (num >= 0, den > 0)
FlRat(num, den) ==
    LET step == Ulp(num \div den, 1)
    IN  RoundHalfEven(num, den * step) * step

\* the float a decimal literal with the given hundredths denotes
Literal(hundredths) == FlRat(hundredths * ScoreOne, 100)

\* product of a float with a score or fraction
ScoreMul(x, y) ==
    IF x * y < 0 THEN 0 - FlRat(0 - (x * y), ScoreOne) ELSE FlRat(x * y, ScoreOne)

\* ------------------------------------------------------- position sizer
base_allocation == Literal(50)
confidence_scaling == Literal(40)
max_position_pct == Literal(90)
min_position_pct == Literal(10)

Min2(x, y) == IF x <= y THEN x ELSE y
Max2(x, y) == IF x >= y THEN x ELSE y

Raised(error) == [raised |-> TRUE, error |-> error, value |-> 0]
Value(v) == [raised |-> FALSE, error |-> "", value |-> v]

\* mutant: a score outside [0, 1] is accepted and clamped
ScoreAlwaysValid(score) == FALSE

ScoreOutOfRange(score) == ~(0 <= score /\ score <= ScoreOne)

CalculateSize(score) ==
    IF ScoreOutOfRange(score) THEN Raised("ValueError")
    ELSE LET position_size == FAdd(base_allocation, ScoreMul(score, confidence_scaling))
         IN  Value(Max2(Min2(position_size, max_position_pct), min_position_pct))

\* portfolio_value >= 0; int() truncates towards zero
CalculateShares(portfolio_value, position_pct, share_price) ==
    LET position_value == ScoreMul(portfolio_value, position_pct)
    IN  IF share_price = 0 THEN Raised("ZeroDivisionError")
        ELSE IF share_price < 0
             THEN Value(Max2(0, 0 - IntFDiv(position_value, 0 - share_price)))
             ELSE Value(Max2(0, IntFDiv(position_value, share_price)))

\* ---------------------------------------------------------------- scorer
\* A DataFrame of prices is known by what the indicators make of it: the
\* momentum acceleration and the timing factor, or a failure to score it
\* (no "price_data" key, or a frame the indicators raise on).
Frame(ok, momentum_acceleration, timing_factor) ==
    [ok |-> ok, momentum_acceleration |-> momentum_acceleration,
     timing_factor |-> timing_factor]

\* max(0, min(1.0, x))
ClampUnit(x) == Max2(0, Min2(ScoreOne, x))

Score(data) ==
    IF ~data.price_data.ok THEN Raised("Exception")
    ELSE LET catalyst_strength == ClampUnit(data.catalyst_strength)
             upside_potential == ClampUnit(data.upside_potential)
             score ==
                 FAdd(FAdd(FAdd(ScoreMul(catalyst_strength, Literal(40)),
                                ScoreMul(data.price_data.momentum_acceleration,
                                         Literal(30))),
                           ScoreMul(upside_potential, Literal(20))),
                      ScoreMul(data.price_data.timing_factor, Literal(10)))
         IN  Value(ClampUnit(score))

\* results[ticker] = score
SetScore(results, ticker, score) ==
    IF ticker \in {results[j].ticker : j \in 1..Len(results)}
    THEN [j \in 1..Len(results) |->
             IF results[j].ticker = ticker THEN [results[j] EXCEPT !.score = score]
             ELSE results[j]]
    ELSE Append(results, [ticker |-> ticker, score |-> score])

\* the body of the loop of batch_score: try ... except
ScoreEntry(results, entry) ==
    LET scored == Score(entry.data)
    IN  IF scored.raised THEN SetScore(results, entry.ticker, 0)
        ELSE SetScore(results, entry.ticker, scored.value)

\* mutant: the first failure ends the batch
RECURSIVE BatchLoopAborting(_, _)
BatchLoopAborting(entries, results) ==
    IF entries = <<>> THEN results
    ELSE IF Score(Head(entries).data).raised
         THEN SetScore(results, Head(entries).ticker, 0)
         ELSE BatchLoopAborting(Tail(entries), ScoreEntry(results, Head(entries)))

RECURSIVE BatchLoop(_, _)
BatchLoop(entries, results) ==
    IF entries = <<>> THEN results
    ELSE BatchLoop(Tail(entries), ScoreEntry(results, Head(entries)))

\* scores_data is a dict: a sequence of [ticker, data] records
BatchScore(scores_data) == BatchLoop(scores_data, <<>>)

\* ------------------------------------------------------ rotation engine
rotation_threshold == Literal(2)

\* minimum_cash = 10.0
MinimumCash == 10

\* watchlist_scores is a dict: a sequence of [ticker, score] records in
\* insertion order, at most one per ticker.
ScoreOf(ws, t) == ws[CHOOSE j \in 1..Len(ws) : ws[j].ticker = t].score

\* position.current_score or 0.0
HoldingScore(pos) == OrZero(pos.current_score)

RotationGain(candidate_score, holding_score) == FSub(candidate_score, holding_score)

\* mutant: a gain equal to the threshold qualifies
MeetsThresholdOrEqual(rotation_gain) == rotation_gain >= rotation_threshold

MeetsThreshold(rotation_gain) == rotation_gain > rotation_threshold

Candidate(sell, buy, gain) == [sell |-> sell, buy |-> buy, gain |-> gain]

\* the (holding, candidate) pairs in the order the nested loops visit them
PairsVisited(ps, ws) ==
    [k \in 1..(Len(ps) * Len(ws)) |->
        LET pos == ps[((k - 1) \div Len(ws)) + 1]
            cand == ws[((k - 1) % Len(ws)) + 1]
        IN  Candidate(pos.ticker, cand.ticker,
                      RotationGain(cand.score, HoldingScore(pos)))]

\* mutant: a candidate that is already held is not skipped
RotationCandidatesAnyBuy(ps, ws) ==
    SelectSeq(PairsVisited(ps, ws), LAMBDA c : MeetsThreshold(c.gain))

RotationCandidates(ps, ws) ==
    SelectSeq(PairsVisited(ps, ws),
              LAMBDA c : c.buy \notin Held(ps) /\ MeetsThreshold(c.gain))

\* list.sort(key = gain, reverse = True) is stable: c goes behind every
\* entry whose gain is at least its own
InsertByGain(sorted, c) ==
    LET k == Cardinality({i \in 1..Len(sorted) : sorted[i].gain >= c.gain})
    IN  SubSeq(sorted, 1, k) \o <<c>> \o SubSeq(sorted, k + 1, Len(sorted))

RECURSIVE SortByGain(_, _)
SortByGain(cs, sorted) ==
    IF cs = <<>> THEN sorted
    ELSE SortByGain(Tail(cs), InsertByGain(sorted, Head(cs)))

\* mutant: the candidates are returned in the order they were found
EvaluateRotationsUnsorted(ps, ws) == RotationCandidates(ps, ws)

EvaluateRotations(ps, ws) == SortByGain(RotationCandidates(ps, ws), <<>>)

NoRotation == [found |-> FALSE, sell |-> "", buy |-> "", gain |-> 0]

GetBestRotation(ps, ws) ==
    LET rotations == EvaluateRotations(ps, ws)
    IN  IF rotations = <<>> THEN NoRotation
        ELSE [found |-> TRUE, sell |-> rotations[1].sell, buy |-> rotations[1].buy,
              gain |-> rotations[1].gain]

\* mutant: the gate is open whatever the cash
ShouldExecuteRotationAlways(p, minimum_cash) == TRUE

ShouldExecuteRotation(p, minimum_cash) == p.cash >= minimum_cash

\* last_rotations[sell_ticker] = buy_ticker
TrackRotation(lr, sell, buy) ==
    [t \in DOMAIN lr \cup {sell} |-> IF t = sell THEN buy ELSE lr[t]]

Executed(ok, error, p, lr) == [ok |-> ok, error |-> error, p |-> p, last_rotations |-> lr]

\* mutant: the bought position does not take the candidate's score
ExecuteRotationUnscored(p, lr, sell, buy, prices, new_score) ==
    IF sell \notin DOMAIN prices \/ buy \notin DOMAIN prices
    THEN Executed(FALSE, "Price data missing", p, lr)
    ELSE IF prices[sell] <= 0 \/ prices[buy] <= 0
    THEN Executed(FALSE, "Invalid prices", p, lr)
    ELSE LET r == RotatePosition(p, sell, buy, prices[sell], prices[buy], NoScore)
         IN  IF ~r.ok THEN Executed(FALSE, "Rotation failed", r.p, lr)
             ELSE Executed(TRUE, "", r.p, TrackRotation(lr, sell, buy))

\* mutant: the rotation is tracked before it is known to have succeeded
ExecuteRotationTrackFirst(p, lr, sell, buy, prices, new_score) ==
    IF sell \notin DOMAIN prices \/ buy \notin DOMAIN prices
    THEN Executed(FALSE, "Price data missing", p, TrackRotation(lr, sell, buy))
    ELSE IF prices[sell] <= 0 \/ prices[buy] <= 0
    THEN Executed(FALSE, "Invalid prices", p, TrackRotation(lr, sell, buy))
    ELSE LET r == RotatePosition(p, sell, buy, prices[sell], prices[buy], new_score)
         IN  Executed(r.ok, IF r.ok THEN "" ELSE "Rotation failed", r.p,
                      TrackRotation(lr, sell, buy))

ExecuteRotation(p, lr, sell, buy, prices, new_score) ==
    IF sell \notin DOMAIN prices \/ buy \notin DOMAIN prices
    THEN Executed(FALSE, "Price data missing", p, lr)
    ELSE IF prices[sell] <= 0 \/ prices[buy] <= 0
    THEN Executed(FALSE, "Invalid prices", p, lr)
    ELSE LET r == RotatePosition(p, sell, buy, prices[sell], prices[buy], new_score)
         IN  IF ~r.ok THEN Executed(FALSE, "Rotation failed", r.p, lr)
             ELSE Executed(TRUE, "", r.p, TrackRotation(lr, sell, buy))

\* ----------------------------------------------------------------- agent
\* What PortfolioRotationAgent.run leaves: whether it raised, the
\* recommendation of the trade plan, whether a rotation was attempted on
\* the Portfolio, the rotation selected, the buy shares of the plan, the
\* ledger and the engine's record.
Cycle(raised, recommendation, attempted, rotation, shares, p, lr) ==
    [raised |-> raised, recommendation |-> recommendation, attempted |-> attempted,
     rotation |-> rotation, shares |-> shares, p |-> p, last_rotations |-> lr]

\* the trade branch of run
Execute(p, lr, rotation, prices, buy_score) ==
    LET r == ExecuteRotation(p, lr, rotation.sell, rotation.buy, prices, buy_score)
    IN  Cycle(FALSE, IF r.ok THEN "ROTATE" ELSE "HOLD", TRUE, rotation, 0,
              r.p, r.last_rotations)

\* mutant: analysis mode executes the rotation it plans
AnalyseByExecuting(p, lr, rotation, prices, buy_score) ==
    Execute(p, lr, rotation, prices, buy_score)

\* the dry-run branch of run: the plan of the rotation, nothing executed
Analyse(p, lr, rotation, prices, buy_score) ==
    LET size == CalculateSize(buy_score)
    IN  IF size.raised THEN Cycle(TRUE, size.error, FALSE, rotation, 0, p, lr)
        ELSE IF rotation.buy \notin DOMAIN prices
        THEN Cycle(TRUE, "KeyError", FALSE, rotation, 0, p, lr)
        ELSE LET shares_to_buy == CalculateShares(PortfolioValue(p), size.value,
                                                  prices[rotation.buy])
             IN  IF shares_to_buy.raised
                 THEN Cycle(TRUE, shares_to_buy.error, FALSE, rotation, 0, p, lr)
                 ELSE IF shares_to_buy.value > 0 /\ rotation.sell \notin DOMAIN prices
                 THEN Cycle(TRUE, "KeyError", FALSE, rotation, 0, p, lr)
                 ELSE Cycle(FALSE, "ROTATE", FALSE, rotation, shares_to_buy.value, p, lr)

Run(p, lr, dry_run, prices, watchlist_scores) ==
    IF DOMAIN prices = {} THEN Cycle(FALSE, "HOLD", FALSE, NoRotation, 0, p, lr)
    ELSE LET p1 == UpdatePrices(p, prices)
             rotation == GetBestRotation(p1.positions, watchlist_scores)
         IN  IF rotation.found /\ ShouldExecuteRotation(p1, MinimumCash)
             THEN IF dry_run
                  THEN Analyse(p1, lr, rotation, prices,
                               ScoreOf(watchlist_scores, rotation.buy))
                  ELSE Execute(p1, lr, rotation, prices,
                              ScoreOf(watchlist_scores, rotation.buy))
             ELSE Cycle(FALSE, "HOLD", FALSE, rotation, 0, p1, lr)

\* ----------------------------------------------------------------- state
\* The Portfolio's fields, the engine's record of rotations, the market the
\* agent's data sources answer with while it is held fixed (the watchlist
\* scores and the price snapshot), and the last call made with what it
\* returned.
VARIABLES initial_capital, cash, positions, trades, peak_value, last_rotations,
          market, last

vars == <<initial_capital, cash, positions, trades, peak_value, last_rotations,
          market, last>>

Market(scores, prices) == [scores |-> scores, prices |-> prices]

\* no market is held fixed
NoMarket == Market(<<>>, <<>>)

Ledger == [cash |-> cash, positions |-> positions, trades |-> trades,
           peak_value |-> peak_value]

Returned(op, ok, proceeds) == [op |-> op, ok |-> ok, proceeds |-> proceeds]

PriceDicts == UNION {[S -> Prices] : S \in SUBSET Tickers}

Install(p) ==
    /\ cash' = p.cash
    /\ positions' = p.positions
    /\ trades' = p.trades
    /\ peak_value' = p.peak_value
    /\ UNCHANGED <<initial_capital, last_rotations, market>>

Init ==
    /\ initial_capital \in Capitals
    /\ cash = initial_capital
    /\ positions = <<>>
    /\ trades = <<>>
    /\ peak_value = initial_capital
    /\ last_rotations = <<>>
    /\ market = NoMarket
    /\ last = Returned("init", TRUE, 0)

add_position ==
    \E t \in Tickers, shares \in ShareCounts, price \in Prices, score \in Scores :
        \E r \in {AddPosition(Ledger, t, shares, price, score)} :
            /\ Len(r.p.trades) <= MaxTrades
            /\ Install(r.p)
            /\ last' = Returned("add_position", r.ok, 0)

remove_position ==
    \E t \in Tickers, price \in Prices :
        \E r \in {RemovePosition(Ledger, t, price)} :
            /\ Len(r.p.trades) <= MaxTrades
            /\ Install(r.p)
            /\ last' = Returned("remove_position", r.ok, r.proceeds)

rotate_position ==
    \E sell \in Tickers, buy \in Tickers, sell_price \in Prices, buy_price \in Prices,
       new_score \in Scores :
        \E r \in {RotatePosition(Ledger, sell, buy, sell_price, buy_price, new_score)} :
            /\ Len(r.p.trades) <= MaxTrades
            /\ Install(r.p)
            /\ last' = Returned("rotate_position", r.ok, 0)

update_prices ==
    \E price_dict \in PriceDicts :
        /\ Install(UpdatePrices(Ledger, price_dict))
        /\ last' = Returned("update_prices", TRUE, 0)

Next == add_position \/ remove_position \/ rotate_position \/ update_prices

Spec == Init /\ [][Next]_vars

\* ------------------------------------------- calls with any share count
\* add_position takes any int for shares; it accepts every count whose
\* cost is within cash, zero included
AnyShareCounts == {0, 1}

add_any_shares ==
    \E t \in Tickers, shares \in AnyShareCounts, price \in Prices, score \in Scores :
        \E r \in {AddPosition(Ledger, t, shares, price, score)} :
            /\ Len(r.p.trades) <= MaxTrades
            /\ Install(r.p)
            /\ last' = Returned("add_position", r.ok, 0)

AnySharesNext == add_any_shares \/ remove_position \/ rotate_position \/ update_prices

AnySharesSpec == Init /\ [][AnySharesNext]_vars

\* ------------------------------------------------- engine and agent calls
WatchTickers == {"A", "B", "C"}
HeldScores == {NoScore, 64}
WatchScores == {20, ScoreOne}
LotSizes == {1}
\* WatchlistManager.get_tickers(): the agent's watchlist, in its order
WatchlistTickers == <<"A", "B">>
SnapshotPrices == {0, 144, 416}

\* the dicts with distinct keys from T and values from S, as sequences of
\* [ticker, score] records in every insertion order
Watchlists(T, S) ==
    {ws \in UNION {[1..n -> [ticker : T, score : S]] : n \in 0..Cardinality(T)} :
        \A i, j \in 1..Len(ws) : ws[i].ticker = ws[j].ticker => i = j}

\* the price snapshots over some of the tickers T
PriceSnapshots(T) == UNION {[S -> SnapshotPrices] : S \in SUBSET T}

Keys(ws) == {ws[j].ticker : j \in 1..Len(ws)}

\* _score_watchlist: a score for every ticker of the watchlist
ScoredWatchlists ==
    {[i \in DOMAIN WatchlistTickers |-> [ticker |-> WatchlistTickers[i], score |-> f[i]]] :
        f \in [DOMAIN WatchlistTickers -> WatchScores]}

InstallAgent(p, lr) ==
    /\ cash' = p.cash
    /\ positions' = p.positions
    /\ trades' = p.trades
    /\ peak_value' = p.peak_value
    /\ last_rotations' = lr
    /\ UNCHANGED <<initial_capital, market>>

\* add_position on the agent's Portfolio, the score possibly unset
open_position ==
    \E t \in Tickers, shares \in LotSizes, price \in Prices, score \in HeldScores :
        \E r \in {AddPosition(Ledger, t, shares, price, score)} :
            /\ Len(r.p.trades) <= MaxTrades
            /\ Install(r.p)
            /\ last' = Returned("add_position", r.ok, 0)

evaluate_rotations ==
    \E ws \in Watchlists(WatchTickers, WatchScores) :
        /\ last' = [op |-> "evaluate_rotations", ok |-> TRUE, proceeds |-> 0,
                    rotations |-> EvaluateRotations(positions, ws)]
        /\ UNCHANGED <<initial_capital, cash, positions, trades, peak_value,
                       last_rotations, market>>

get_best_rotation ==
    \E ws \in Watchlists(WatchTickers, WatchScores) :
        /\ last' = [op |-> "get_best_rotation", ok |-> TRUE, proceeds |-> 0,
                    rotation |-> GetBestRotation(positions, ws)]
        /\ UNCHANGED <<initial_capital, cash, positions, trades, peak_value,
                       last_rotations, market>>

execute_rotation ==
    \E sell \in Tickers, buy \in Tickers, prices \in PriceSnapshots(Tickers),
       new_score \in {ScoreOne} :
        \E r \in {ExecuteRotation(Ledger, last_rotations, sell, buy, prices, new_score)} :
            /\ Len(r.p.trades) <= MaxTrades
            /\ InstallAgent(r.p, r.last_rotations)
            /\ last' = [op |-> "execute_rotation", ok |-> r.ok, proceeds |-> 0,
                        error |-> r.error]

run ==
    \E dry_run \in BOOLEAN, ws \in ScoredWatchlists :
        \E prices \in PriceSnapshots(Keys(ws)) :
            \E r \in {Run(Ledger, last_rotations, dry_run, prices, ws)} :
                /\ Len(r.p.trades) <= MaxTrades
                /\ InstallAgent(r.p, r.last_rotations)
                /\ last' = [op |-> "run", ok |-> ~r.raised, proceeds |-> 0,
                            dry_run |-> dry_run,
                            found |-> r.rotation.found,
                            attempted |-> r.attempted,
                            recommendation |-> r.recommendation]

EngineNext == open_position \/ evaluate_rotations \/ get_best_rotation

EngineSpec == Init /\ [][EngineNext]_vars

ExecutionNext == open_position \/ execute_rotation

ExecutionSpec == Init /\ [][ExecutionNext]_vars

AgentNext == add_position \/ run

AgentSpec == Init /\ [][AgentNext]_vars

\* ------------------------------------------- cycles over a fixed market
MaxCycleTrades == 12    \* longest trade history a cycle starts from
CycleScores == {64, ScoreOne}
CyclePrices == {0, 144}

\* the markets: a score for every ticker of the watchlist, a price for some
Markets ==
    {Market([i \in DOMAIN WatchlistTickers |->
                [ticker |-> WatchlistTickers[i], score |-> f[i]]], prices) :
        f \in [DOMAIN WatchlistTickers -> CycleScores],
        prices \in UNION {[S -> CyclePrices] :
                             S \in SUBSET {WatchlistTickers[i] : i \in DOMAIN WatchlistTickers}}}

CyclesInit ==
    /\ initial_capital \in Capitals
    /\ cash = initial_capital
    /\ positions = <<>>
    /\ trades = <<>>
    /\ peak_value = initial_capital
    /\ last_rotations = <<>>
    /\ market \in Markets
    /\ last = Returned("init", TRUE, 0)

\* what run(dry_run = False) reports with the data sources answering market
CycleReport(r) ==
    [op |-> "run", ok |-> ~r.raised, proceeds |-> 0, dry_run |-> FALSE,
     found |-> r.rotation.found, attempted |-> r.attempted,
     recommendation |-> r.recommendation]

trade_cycle ==
    /\ Len(trades) <= MaxCycleTrades
    /\ \E r \in {Run(Ledger, last_rotations, FALSE, market.prices, market.scores)} :
          /\ InstallAgent(r.p, r.last_rotations)
          /\ last' = CycleReport(r)

CyclesNext == open_position \/ trade_cycle

\* ENABLED <<trade_cycle>>_vars, written out: a cycle may start and leaves
\* another state
CycleEnabled ==
    /\ Len(trades) <= MaxCycleTrades
    /\ LET r == Run(Ledger, last_rotations, FALSE, market.prices, market.scores)
       IN  <<r.p, r.last_rotations, CycleReport(r)>> # <<Ledger, last_rotations, last>>

\* WF_vars(trade_cycle): the agent is run cycle after cycle
CyclesFairness == []<>(~CycleEnabled) \/ []<><<trade_cycle>>_vars

CyclesSpec == CyclesInit /\ [][CyclesNext]_vars /\ CyclesFairness

\* --------------------------------------------------- scorer and sizer calls
Frames ==
    {Frame(FALSE, 0, 0), Frame(TRUE, ScoreOne, ScoreOne \div 2),
     Frame(TRUE, 0 - ScoreOne, 0 - (ScoreOne \div 2))}

ScoreInputs ==
    {[price_data |-> f, catalyst_strength |-> c, upside_potential |-> ScoreOne \div 4] :
        f \in Frames, c \in {ScoreOne}}

\* the dicts of ticker -> data, in every insertion order
ScoreBatches ==
    {b \in UNION {[1..n -> [ticker : WatchTickers, data : ScoreInputs]] :
                     n \in 0..Cardinality(WatchTickers)} :
        \A i, j \in 1..Len(b) : b[i].ticker = b[j].ticker => i = j}

\* the floats from below 0.0 to above 1.0
SizerScores ==
    {m * Pow2(e) : m \in 0..(TwoToP - 1), e \in 0..7} \cup {0 - 1, 0 - ScoreOne}

LedgerUnchanged ==
    UNCHANGED <<initial_capital, cash, positions, trades, peak_value, last_rotations,
                market>>

batch_score ==
    \E scores_data \in ScoreBatches :
        /\ last' = [op |-> "batch_score", ok |-> TRUE, proceeds |-> 0,
                    scores_data |-> scores_data, results |-> BatchScore(scores_data)]
        /\ LedgerUnchanged

calculate_size ==
    \E score \in SizerScores :
        \E r \in {CalculateSize(score)} :
            /\ last' = [op |-> "calculate_size", ok |-> ~r.raised, proceeds |-> 0,
                        score |-> score, error |-> r.error, value |-> r.value]
            /\ LedgerUnchanged

ScoringNext == batch_score \/ calculate_size

ScoringSpec == Init /\ [][ScoringNext]_vars

\* ------------------------------------------------------------ indicators
\* A pd.Series of floats is a sequence; NaN marks an undefined entry and Inf
\* the quotient of a positive float by zero.  Prices are whole quanta, the
\* averages and the RSI are floats whose 1.0 is ScoreOne.
NaN == 0 - 1
Inf == 0 - 2

\* the float nearest to 100
Hundred == Fl(100 * ScoreOne)

\* prices.diff()
Diff(prices) ==
    [i \in 1..Len(prices) |-> IF i = 1 THEN NaN ELSE FSub(prices[i], prices[i - 1])]

\* delta.where(delta > 0, 0): NaN > 0 is False, so the first entry becomes 0
Gain(prices) ==
    [i \in 1..Len(prices) |->
        IF i > 1 /\ prices[i] > prices[i - 1] THEN Diff(prices)[i] ELSE 0]

\* -delta.where(delta < 0, 0)
Loss(prices) ==
    [i \in 1..Len(prices) |->
        IF i > 1 /\ prices[i] < prices[i - 1] THEN 0 - Diff(prices)[i] ELSE 0]

RECURSIVE WindowSum(_, _, _)
WindowSum(series, from, to) ==
    IF from > to THEN 0 ELSE FAdd(WindowSum(series, from, to - 1), series[to])

\* series.rolling(window).mean(): defined once window entries are seen
RollingMean(series, window) ==
    [i \in 1..Len(series) |->
        IF i < window THEN NaN
        ELSE FlRat(WindowSum(series, i - window + 1, i) * ScoreOne, window)]

\* avg_gain / avg_loss, entry by entry (floats >= 0 or NaN)
RelativeStrength(avg_gain, avg_loss) ==
    IF avg_gain = NaN \/ avg_loss = NaN THEN NaN
    ELSE IF avg_loss = 0 THEN (IF avg_gain = 0 THEN NaN ELSE Inf)
    ELSE FlRat(avg_gain * ScoreOne, avg_loss)

\* 100 - (100 / (1 + rs))
RsiOf(rs) ==
    IF rs = NaN THEN NaN
    ELSE IF rs = Inf THEN Hundred
    ELSE FSub(Hundred, FlRat(Hundred * ScoreOne, FAdd(ScoreOne, rs)))

\* period >= 1
RSI(prices, period) ==
    IF Len(prices) < period + 1 THEN [i \in 1..Len(prices) |-> NaN]
    ELSE LET avg_gain == RollingMean(Gain(prices), period)
             avg_loss == RollingMean(Loss(prices), period)
         IN  [i \in 1..Len(prices) |->
                 RsiOf(RelativeStrength(avg_gain[i], avg_loss[i]))]

\* ------------------------------------------------------- indicator calls
SeriesLen == 3        \* longest price series explored
ClosingPrices == {2, 3, 5}
Periods == {1, 2}

PriceSeries == UNION {[1..n -> ClosingPrices] : n \in 0..SeriesLen}

rsi ==
    \E prices \in PriceSeries, period \in Periods :
        /\ last' = [op |-> "RSI", ok |-> TRUE, proceeds |-> 0, prices |-> prices,
                    period |-> period, rsi |-> RSI(prices, period)]
        /\ LedgerUnchanged

IndicatorNext == rsi

IndicatorSpec == Init /\ [][IndicatorNext]_vars

\* ---------------------------------------------------------------- claims
IsPrefix(s, t) == Len(s) <= Len(t) /\ SubSeq(t, 1, Len(s)) = s

Max(x, y) == IF x >= y THEN x ELSE y

LedgerVars == <<cash, positions, trades, peak_value>>

\* the trades the step appended, when trades is a prefix of trades'
Appended == SubSeq(trades', Len(trades) + 1, Len(trades'))

\* C1: in every state reached from a Portfolio built with initial capital
\* >= 0 by add_position, remove_position, rotate_position and update_prices
\* calls with share counts >= 1 and prices > 0, cash is >= 0.
CashNeverNegative == cash >= 0

\* a buy that spent the last of the cash
CashSpentToZero ==
    /\ last.op = "add_position" /\ last.ok
    /\ initial_capital > 0 /\ cash = 0

\* C2: rotate_position is all-or-nothing: it either returns true with a
\* SELL of the sell ticker and a BUY of the buy ticker recorded, the sell
\* ticker closed and the buy ticker open, or returns false with cash,
\* positions, trade history and peak value as before the call; the open
\* step never fails after the close step was applied.
RotationAllOrNothing ==
    [][last'.op = "rotate_position" =>
         IF last'.ok
         THEN /\ IsPrefix(trades, trades')
              /\ Len(Appended) = 2
              /\ Appended[1].trade_type = "SELL"
              /\ Appended[2].trade_type = "BUY"
              /\ Appended[1].ticker \in Held(positions)
              /\ Appended[2].ticker \in Held(positions')
              /\ Appended[1].ticker # Appended[2].ticker
                    => Appended[1].ticker \notin Held(positions')
         ELSE UNCHANGED LedgerVars]_vars

\* C3: across any sequence of add_position, remove_position, update_prices
\* and rotate_position calls, successful or not, peak_value never decreases
\* from one state to the next.
PeakNeverDecreases == [][peak_value' >= peak_value]_vars

\* the peak has risen above the initial capital and the value has since
\* fallen below it
PeakAboveValue ==
    /\ peak_value > initial_capital
    /\ PortfolioValue(Ledger) < peak_value

\* C4: after every completed operation peak_value is the maximum of the
\* initial capital and the portfolio values at the end of every completed
\* operation so far (equivalently, as the peak starts at the initial
\* capital: each operation leaves the larger of the old peak and the value
\* it ends with), hence peak_value >= portfolio_value in every state.
PeakIsMaxObserved ==
    /\ [](peak_value >= PortfolioValue(Ledger))
    /\ [][peak_value' = Max(peak_value, PortfolioValue(Ledger'))]_vars

\* C5: one Trade per leg: a successful add_position appends exactly one BUY,
\* a successful remove_position exactly one SELL, a successful
\* rotate_position exactly a SELL followed by a BUY, and an operation that
\* returns failure appends none.
OneTradePerLeg ==
    [][/\ IsPrefix(trades, trades')
       /\ (last'.op \in {"add_position", "remove_position", "rotate_position"}
             /\ ~last'.ok) => Appended = <<>>
       /\ (last'.op = "add_position" /\ last'.ok) =>
             Len(Appended) = 1 /\ Appended[1].trade_type = "BUY"
       /\ (last'.op = "remove_position" /\ last'.ok) =>
             Len(Appended) = 1 /\ Appended[1].trade_type = "SELL"
       /\ (last'.op = "rotate_position" /\ last'.ok) =>
             /\ Len(Appended) = 2
             /\ Appended[1].trade_type = "SELL"
             /\ Appended[2].trade_type = "BUY"]_vars

\* C6: the trade history is append-only and execution-ordered: the history
\* before an operation is a prefix of the history after it, and the legs of
\* a rotation are recorded in the order they ran, the SELL before the BUY.
TradesAppendOnly ==
    [][/\ IsPrefix(trades, trades')
       /\ Len(Appended) <= 2
       /\ Len(Appended) = 2 =>
             /\ last'.op = "rotate_position"
             /\ Appended[1].trade_type = "SELL"
             /\ Appended[2].trade_type = "BUY"]_vars

\* a rotation appended its two legs to a history that was not empty
RotationAppended ==
    /\ last.op = "rotate_position" /\ last.ok
    /\ Len(trades) = 3
    /\ trades[1].trade_type = "BUY"
    /\ trades[2].trade_type = "SELL"
    /\ trades[3].trade_type = "BUY"

\* C7: a declined ledger operation leaves the Portfolio unmodified:
\* add_position with shares*price > cash returns false, remove_position of
\* a ticker that is not held returns (false, 0), and in both cases cash,
\* the positions with all their fields, the trade history and peak_value
\* are as before.
DeclinedLeavesLedger ==
    /\ \A t \in Tickers, shares \in ShareCounts, price \in Prices, score \in Scores :
          FMul(shares, price) > cash =>
              AddPosition(Ledger, t, shares, price, score) = Result(FALSE, 0, Ledger)
    /\ \A t \in Tickers \ Held(positions), price \in Prices :
          RemovePosition(Ledger, t, price) = Result(FALSE, 0, Ledger)

\* a buy was declined while a position was open and a trade recorded
BuyDeclined ==
    /\ last.op = "add_position" /\ ~last.ok
    /\ positions # <<>> /\ trades # <<>>
    /\ \A shares \in ShareCounts, price \in Prices : FMul(shares, price) > cash

\* C8: a successful add_position(ticker, shares, price, score) for a ticker
\* not held decreases cash by exactly shares*price, adds exactly one
\* Position for the ticker with the given shares, entry price = current
\* price = price and entry score = current score = score, leaves every other
\* position unchanged and records exactly one BUY trade with those shares
\* and price.
AddOpensPosition ==
    \A t \in Tickers \ Held(positions), shares \in ShareCounts, price \in Prices,
       score \in Scores :
        LET r == AddPosition(Ledger, t, shares, price, score)
        IN  r.ok =>
              /\ r.p.cash = FSub(cash, FMul(shares, price))
              /\ r.p.positions = Append(positions,
                    [ticker |-> t, shares |-> shares, entry_price |-> price,
                     current_price |-> price, entry_score |-> score,
                     current_score |-> score])
              /\ r.p.trades = Append(trades,
                    [ticker |-> t, trade_type |-> "BUY", shares |-> shares,
                     price |-> price, score |-> score])

\* a buy opened a second position beside the one already held
SecondPositionOpened ==
    /\ last.op = "add_position" /\ last.ok
    /\ Len(positions) = 2
    /\ Len(trades) = 2
    /\ trades[2].trade_type = "BUY"
    /\ trades[2].ticker = positions[2].ticker
    /\ trades[2].shares = positions[2].shares

\* C9: a successful remove_position(ticker, price) closes the whole holding:
\* the proceeds returned are (held shares)*price, cash increases by exactly
\* the proceeds, the ticker leaves the positions mapping, all other
\* positions are unchanged and the SELL trade records the full share count
\* that was held.
RemoveClosesWholeHolding ==
    \A t \in Held(positions), price \in Prices :
        LET r == RemovePosition(Ledger, t, price)
            pos == GetPosition(positions, t)
        IN  /\ r.ok
            /\ r.proceeds = FMul(pos.shares, price)
            /\ r.p.cash = FAdd(cash, r.proceeds)
            /\ r.p.positions = SelectSeq(positions, LAMBDA q : q # pos)
            /\ t \notin Held(r.p.positions)
            /\ IsPrefix(trades, r.p.trades)
            /\ Len(r.p.trades) = Len(trades) + 1
            /\ r.p.trades[Len(r.p.trades)].trade_type = "SELL"
            /\ r.p.trades[Len(r.p.trades)].ticker = t
            /\ r.p.trades[Len(r.p.trades)].shares = pos.shares
            /\ r.p.trades[Len(r.p.trades)].price = price

\* a holding was closed while another stayed open
HoldingClosed ==
    /\ last.op = "remove_position" /\ last.ok
    /\ Len(positions) = 1
    /\ trades[Len(trades)].trade_type = "SELL"
    /\ trades[Len(trades)].ticker \notin Held(positions)
    /\ last.proceeds = FMul(trades[Len(trades)].shares, trades[Len(trades)].price)

\* C10: after a successful rotate_position(sell, buy, sellPrice, buyPrice)
\* with buy not held before, sell is absent, buy is present with exactly
\* int(heldShares(sell)*sellPrice / buyPrice) shares, and that is the
\* largest whole number of shares the sale proceeds alone pay for.
RotationBuysWhatProceedsPayFor ==
    \A sell \in Held(positions), buy \in Tickers \ Held(positions),
       sell_price \in Prices, buy_price \in Prices, new_score \in Scores :
        LET r == RotatePosition(Ledger, sell, buy, sell_price, buy_price, new_score)
            proceeds == FMul(GetPosition(positions, sell).shares, sell_price)
            bought == GetPosition(r.p.positions, buy).shares
        IN  r.ok =>
              /\ sell \notin Held(r.p.positions)
              /\ buy \in Held(r.p.positions)
              /\ bought = IntFDiv(proceeds, buy_price)
              /\ FMul(bought, buy_price) <= proceeds
              /\ FMul(bought + 1, buy_price) > proceeds

\* C11: for every portfolio state and every watchlist score map, every
\* (sell, buy, gain) returned by evaluate_rotations has sell currently held,
\* buy a watchlist ticker that is not held, gain = score(buy) - held score
\* of sell with an unset held score taken as 0, and gain strictly greater
\* than the threshold (0.02).
RotationsAreQualified ==
    \A ws \in Watchlists(WatchTickers, WatchScores) :
        LET rotations == EvaluateRotations(positions, ws)
        IN  \A k \in 1..Len(rotations) :
              LET r == rotations[k]
              IN  /\ r.sell \in Held(positions)
                  /\ r.buy \in Keys(ws)
                  /\ r.buy \notin Held(positions)
                  /\ LET held == GetPosition(positions, r.sell).current_score
                     IN  r.gain = FSub(ScoreOf(ws, r.buy),
                                       IF held = NoScore THEN 0 ELSE held)
                  /\ r.gain > Literal(2)

\* evaluate_rotations proposed selling a holding whose score is unset while
\* a second position was open
UnscoredHoldingProposed ==
    /\ last.op = "evaluate_rotations"
    /\ Len(positions) = 2
    /\ \E k \in 1..Len(last.rotations) :
          GetPosition(positions, last.rotations[k].sell).current_score = NoScore

\* the (held, candidate, gain) triples that qualify, straight from the
\* definition
Qualifying(ws) ==
    {Candidate(positions[i].ticker, ws[j].ticker,
               FSub(ws[j].score, OrZero(positions[i].current_score))) :
        <<i, j>> \in {ij \in (1..Len(positions)) \X (1..Len(ws)) :
            /\ ws[ij[2]].ticker \notin Held(positions)
            /\ FSub(ws[ij[2]].score, OrZero(positions[ij[1]].current_score))
                 > Literal(2)}}

\* C12: evaluate_rotations is complete and ordered: every (held, candidate)
\* pair with candidate not held and gain > threshold is in the result, the
\* result is sorted by non-increasing gain, and get_best_rotation returns
\* none exactly when no pair qualifies and otherwise a qualifying pair of
\* maximal gain.
RotationsCompleteAndOrdered ==
    \A ws \in Watchlists(WatchTickers, WatchScores) :
        LET rotations == EvaluateRotations(positions, ws)
            best == GetBestRotation(positions, ws)
        IN  /\ \A c \in Qualifying(ws) : \E k \in 1..Len(rotations) : rotations[k] = c
            /\ \A k \in 1..(Len(rotations) - 1) : rotations[k].gain >= rotations[k + 1].gain
            /\ best.found <=> Qualifying(ws) # {}
            /\ best.found =>
                  /\ Candidate(best.sell, best.buy, best.gain) \in Qualifying(ws)
                  /\ \A c \in Qualifying(ws) : best.gain >= c.gain

\* the best rotation sells the holding opened second: the pair found first
\* had the smaller gain
BestFoundLater ==
    /\ last.op = "get_best_rotation"
    /\ last.rotation.found
    /\ Len(positions) = 2
    /\ last.rotation.sell = positions[2].ticker
    /\ OrZero(positions[1].current_score) > OrZero(positions[2].current_score)

ExecuteRotationFailsCleanly ==
    \A sell \in Tickers, buy \in Tickers, prices \in PriceSnapshots(Tickers) :
        LET r == ExecuteRotation(Ledger, last_rotations, sell, buy, prices, ScoreOne)
            missing == sell \notin DOMAIN prices \/ buy \notin DOMAIN prices
            invalid == ~missing /\ (prices[sell] <= 0 \/ prices[buy] <= 0)
        IN  /\ missing => ~r.ok /\ r.error = "Price data missing"
            /\ invalid => ~r.ok /\ r.error = "Invalid prices"
            /\ (~missing /\ ~invalid) =>
                  LET rotated == RotatePosition(Ledger, sell, buy, prices[sell],
                                                prices[buy], ScoreOne)
                  IN  /\ r.ok <=> rotated.ok
                      /\ ~r.ok => r.error = "Rotation failed"
            /\ ~r.ok => r.p = Ledger /\ r.last_rotations = last_rotations
            /\ r.ok => /\ sell \in DOMAIN r.last_rotations
                       /\ r.last_rotations[sell] = buy
                       /\ \A t \in DOMAIN r.last_rotations \ {sell} :
                             t \in DOMAIN last_rotations
                             /\ r.last_rotations[t] = last_rotations[t]

\* C15: a single run() executes at most one rotation on the Portfolio: the
\* trade history grows during one run either by nothing or by exactly one
\* SELL followed by one BUY.
OneRotationPerRun ==
    [][last'.op = "run" =>
         /\ IsPrefix(trades, trades')
         /\ \/ Appended = <<>>
            \/ /\ Len(Appended) = 2
               /\ Appended[1].trade_type = "SELL"
               /\ Appended[2].trade_type = "BUY"]_vars

\* C16: in analysis mode (dry_run = True) no trade is executed: cash, the
\* set of held tickers, every position's share count, entry price and
\* scores, and the trade history are the same after run() as before it,
\* whatever the recommendation.
DryRunLeavesHoldings ==
    [][(last'.op = "run" /\ last'.dry_run) =>
         /\ cash' = cash
         /\ trades' = trades
         /\ Held(positions') = Held(positions)
         /\ Len(positions') = Len(positions)
         /\ \A i \in 1..Len(positions) :
               /\ positions'[i].ticker = positions[i].ticker
               /\ positions'[i].shares = positions[i].shares
               /\ positions'[i].entry_price = positions[i].entry_price
               /\ positions'[i].entry_score = positions[i].entry_score
               /\ positions'[i].current_score = positions[i].current_score]_vars

\* an analysis cycle planned a rotation and left the holding in place at
\* the price of the snapshot
RotationPlannedOnly ==
    /\ last.op = "run" /\ last.dry_run /\ last.ok
    /\ last.recommendation = "ROTATE"
    /\ Len(positions) = 1 /\ Len(trades) = 1
    /\ positions[1].current_price # positions[1].entry_price

\* C17: when the price snapshot lacks the sell or buy ticker of the
\* selected rotation, or holds a non-positive price for either, run()
\* returns the recommendation HOLD without raising and without appending a
\* trade, in analysis mode and in trade mode.
MissingPriceFallsBackToHold ==
    \A dry_run \in BOOLEAN, ws \in ScoredWatchlists :
        \A prices \in PriceSnapshots(Keys(ws)) \ {<<>>} :
            LET r == Run(Ledger, last_rotations, dry_run, prices, ws)
                best == GetBestRotation(positions, ws)
            IN  (/\ best.found
                 /\ \/ best.sell \notin DOMAIN prices
                    \/ best.buy \notin DOMAIN prices
                    \/ prices[best.sell] <= 0
                    \/ prices[best.buy] <= 0)
                => /\ ~r.raised
                   /\ r.recommendation = "HOLD"
                   /\ r.p.trades = trades

\* C18: batch_score isolates per-ticker failures: the result has exactly
\* the input's tickers as keys; a ticker whose scoring raises gets 0.0, and
\* every other ticker gets the score it would get if scored alone, wherever
\* in the iteration the failure occurs.
BatchScoreIsolatesFailures ==
    last.op = "batch_score" =>
        LET batch == last.scores_data
            results == last.results
        IN  /\ {results[j].ticker : j \in 1..Len(results)}
                  = {batch[i].ticker : i \in 1..Len(batch)}
            /\ Len(results) = Len(batch)
            /\ \A i \in 1..Len(batch) : \A j \in 1..Len(results) :
                  results[j].ticker = batch[i].ticker =>
                      LET alone == Score(batch[i].data)
                      IN  results[j].score = IF alone.raised THEN 0 ELSE alone.value

\* a batch of three whose first ticker failed and whose later tickers were
\* scored above zero
FailureFirstInBatch ==
    /\ last.op = "batch_score"
    /\ Len(last.scores_data) = 3
    /\ Score(last.scores_data[1].data).raised
    /\ last.results[2].score > 0
    /\ last.results[3].score > 0

Clamp(lo, hi, x) == IF x < lo THEN lo ELSE IF x > hi THEN hi ELSE x

\* C19: for every score in [0, 1], calculate_size(score) =
\* clamp(0.10, 0.90, 0.50 + 0.40 * score), lies in [0.10, 0.90] and is
\* non-decreasing in score; for every score outside [0, 1] it fails with an
\* invalid-argument error instead of clamping.
SizeIsClampedAndMonotone ==
    last.op = "calculate_size" =>
        IF 0 <= last.score /\ last.score <= ScoreOne
        THEN /\ last.ok
             /\ last.value = Clamp(Literal(10), Literal(90),
                                   FAdd(Literal(50), ScoreMul(last.score, Literal(40))))
             /\ Literal(10) <= last.value /\ last.value <= Literal(90)
             /\ \A lower \in SizerScores :
                   (0 <= lower /\ lower <= last.score) =>
                       CalculateSize(lower).value <= last.value
        ELSE ~last.ok /\ last.error = "ValueError"

\* the size of the top score: the cap, above the size of the bottom score
TopScoreSized ==
    /\ last.op = "calculate_size" /\ last.ok
    /\ last.score = ScoreOne
    /\ last.value = Literal(90)
    /\ last.value > CalculateSize(0).value

\* C20: every Position of the Portfolio has a share count >= 1 in every
\* reachable state: no call the Portfolio accepts (add_position with any
\* share count it does not reject, rotate_position, remove_position,
\* update_prices) creates or leaves a holding with zero or negative shares.
SharesAtLeastOne == \A i \in 1..Len(positions) : positions[i].shares >= 1

\* C21: RSI(prices, period) returns a series of the same length as its
\* input that is undefined at every index with fewer than period+1
\* observations up to and including it (and at every index when the series
\* is too short), never raising; wherever it is defined its value lies in
\* [0, 100].
RsiUndefinedUntilWarm ==
    last.op = "RSI" =>
        /\ last.ok
        /\ Len(last.rsi) = Len(last.prices)
        /\ \A i \in 1..Len(last.rsi) :
              /\ i < last.period + 1 => last.rsi[i] = NaN
              /\ last.rsi[i] # NaN => 0 <= last.rsi[i] /\ last.rsi[i] <= Hundred

UpdatePricesTouchesOnlyPrices ==
    \A price_dict \in PriceDicts :
        LET p2 == UpdatePrices(Ledger, price_dict)
        IN  /\ p2.cash = cash
            /\ p2.trades = trades
            /\ Len(p2.positions) = Len(positions)
            /\ \A i \in 1..Len(positions) :
                  p2.positions[i] =
                     [ticker |-> positions[i].ticker,
                      shares |-> positions[i].shares,
                      entry_price |-> positions[i].entry_price,
                      entry_score |-> positions[i].entry_score,
                      current_score |-> positions[i].current_score,
                      current_price |->
                         IF positions[i].ticker \in DOMAIN price_dict
                         THEN price_dict[positions[i].ticker]
                         ELSE positions[i].current_price]
            /\ p2.peak_value >= peak_value

\* a price map naming one of two holdings moved its price and left the
\* other holding's price
OnePriceUpdated ==
    /\ last.op = "update_prices"
    /\ Len(positions) = 2 /\ Len(trades) = 2
    /\ positions[1].current_price # trades[1].price
    /\ positions[1].entry_price = trades[1].price
    /\ positions[2].current_price = trades[2].price

\* C24: realized_pnl is the profit and loss from closed positions: in every
\* reachable state in which no SELL trade has been recorded it equals 0, and
\* its value changes only when a position is closed (remove_position or the
\* sell leg of rotate_position), never through add_position or
\* update_prices.
RealizedPnlFromClosesOnly ==
    /\ []((\A i \in 1..Len(trades) : trades[i].trade_type # "SELL")
             => RealizedPnl(Ledger, initial_capital) = 0)
    /\ [][last'.op \in {"add_position", "update_prices"} =>
             RealizedPnl(Ledger', initial_capital')
                = RealizedPnl(Ledger, initial_capital)]_vars

\* the cash a ledger started with capital holds after the trades ts, each
\* BUY value taken off and each SELL value added in the order recorded
RECURSIVE CashAfter(_, _)
CashAfter(ts, capital) ==
    IF ts = <<>> THEN capital
    ELSE CashAfter(Tail(ts),
                   IF Head(ts).trade_type = "BUY"
                   THEN FSub(capital, TradeValue(Head(ts)))
                   ELSE FAdd(capital, TradeValue(Head(ts))))

LastSell(t, n) ==
    LET sells == {k \in 1..n : trades[k].ticker = t /\ trades[k].trade_type = "SELL"}
    IN  IF sells = {} THEN 0 ELSE CHOOSE k \in sells : \A j \in sells : j <= k

\* total shares of the BUY trades of ticker t at indexes from+1 .. to
RECURSIVE SharesBought(_, _, _)
SharesBought(t, from, to) ==
    IF to <= from THEN 0
    ELSE SharesBought(t, from, to - 1)
         + (IF trades[to].ticker = t /\ trades[to].trade_type = "BUY"
            THEN trades[to].shares ELSE 0)

\* C26: holdings agree with the audit trail: in every reachable state, for
\* every ticker the held share count equals the total shares of the BUY
\* trades for that ticker recorded after its most recent SELL trade (all
\* its BUY trades if it was never sold), a ticker with no such BUY trade is
\* not held, and every SELL trade's share count equals the whole holding
\* that existed when it was recorded.
HoldingsAgreeWithTrades ==
    /\ \A t \in Tickers :
          LET bought == {k \in (LastSell(t, Len(trades)) + 1)..Len(trades) :
                            trades[k].ticker = t /\ trades[k].trade_type = "BUY"}
          IN  /\ bought = {} => t \notin Held(positions)
              /\ t \in Held(positions) =>
                    GetPosition(positions, t).shares
                       = SharesBought(t, LastSell(t, Len(trades)), Len(trades))
              /\ Cardinality({i \in 1..Len(positions) : positions[i].ticker = t}) <= 1
    /\ \A k \in 1..Len(trades) :
          trades[k].trade_type = "SELL" =>
              trades[k].shares
                 = SharesBought(trades[k].ticker, LastSell(trades[k].ticker, k - 1), k - 1)

\* a ticker bought, sold whole and bought again in another quantity: its
\* holding is the last buy alone
HoldingFollowsLastSell ==
    /\ Len(trades) = 3 /\ Len(positions) = 1
    /\ trades[1].trade_type = "BUY"
    /\ trades[2].trade_type = "SELL"
    /\ trades[3].trade_type = "BUY"
    /\ trades[1].ticker = trades[3].ticker
    /\ trades[2].ticker = trades[3].ticker
    /\ trades[1].shares # trades[3].shares
    /\ positions[1].shares = trades[3].shares

\* C27: a successful rotate_position with positive prices never decreases
\* cash: cash after minus cash before equals the sale proceeds minus
\* sharesToBuy*buyPrice, which is >= 0 and strictly less than buyPrice (only
\* the sub-share remainder of the proceeds is left uninvested).
RotationNeverDecreasesCash ==
    [][(last'.op = "rotate_position" /\ last'.ok) =>
         LET proceeds == TradeValue(Appended[1])
             cost == TradeValue(Appended[2])
         IN  /\ cash' = FSub(FAdd(cash, proceeds), cost)
             /\ proceeds - cost >= 0
             /\ proceeds - cost < Appended[2].price
             /\ cash' >= cash]_vars

CyclePreservesPositionCount ==
    [][last'.op = "run" =>
         /\ Len(positions') = Len(positions)
         /\ \/ Held(positions') = Held(positions)
            \/ \E sell \in Held(positions), buy \in Tickers \ Held(positions) :
                  Held(positions') = (Held(positions) \ {sell}) \cup {buy}
         /\ positions = <<>> =>
               /\ last'.ok /\ last'.recommendation = "HOLD"
               /\ positions' = <<>> /\ cash' = cash /\ trades' = trades]_vars

\* C30: analysis mode predicts trade mode: for the same portfolio state,
\* watchlist scores and prices, run(dry_run=True) recommends ROTATE into buy
\* ticker T with N buy shares exactly when run(dry_run=False) executes a
\* rotation that opens N shares of T (same recommendation, same tickers,
\* same share count).
AnalysisPredictsTrade ==
    \A ws \in ScoredWatchlists :
        \A prices \in PriceSnapshots(Keys(ws)) :
            LET dry == Run(Ledger, last_rotations, TRUE, prices, ws)
                trade == Run(Ledger, last_rotations, FALSE, prices, ws)
                planned == ~dry.raised /\ dry.recommendation = "ROTATE"
                executed == trade.recommendation = "ROTATE"
            IN  /\ planned <=> executed
                /\ planned =>
                      /\ dry.rotation.sell = trade.rotation.sell
                      /\ dry.rotation.buy = trade.rotation.buy
                      /\ dry.shares
                            = GetPosition(trade.p.positions, trade.rotation.buy).shares

====
